---- MODULE Spec2Model ----
(***************************************************************************)
(* Model of meltano's SettingsService (src/meltano/core/                   *)
(* settings_service.py): layered resolution of setting values over backing *)
(* stores, casting, redaction, object assembly, environment projection and *)
(* the write path.                                                         *)
(*                                                                         *)
(* Names are dotted paths, kept as sequences of segments: "foo.x" is       *)
(* <<"foo", "x">>.  name.startswith(key + ".") is then "key is a proper    *)
(* prefix of name" and name[len(prefix):] is the remaining segments.       *)
(*                                                                         *)
(* Values are tagged records so that a string "true" and the boolean true, *)
(* or the string "1" and the integer 1, are different values.              *)
(***************************************************************************)
EXTENDS Naturals, Sequences, FiniteSets, TLC

\* ------------------------------------------------------------------ values
Null == [k |-> "null", s |-> "", m |-> {}]
Str(x) == [k |-> "str", s |-> x, m |-> {}]
Int(x) == [k |-> "int", s |-> x, m |-> {}]
Bool(x) == [k |-> "bool", s |-> x, m |-> {}]
\* a mapping value: m is a set of <<nested key, value>> pairs, one per key
Obj(pairs) == [k |-> "obj", s |-> "", m |-> pairs]
\* the JSON text of a mapping (what stringification of a mapping yields)
Json(pairs) == [k |-> "str", s |-> "json", m |-> pairs]

\* sentinel value to use to prevent leaking sensitive data
REDACTED_VALUE == Str("(redacted)")

\* Python truthiness of a value: None, "", 0, False and {} are falsy
Truthy(v) ==
  CASE v.k = "null" -> FALSE
    [] v.k = "str" -> ~(v.s = "" /\ v.m = {})
    [] v.k = "int" -> v.s # "0"
    [] v.k = "bool" -> v.s = "true"
    [] OTHER -> v.m # {}

\* ------------------------------------------------------------------ stores
\* SettingValueStore: the concrete kinds in precedence order, then DEFAULT,
\* and the virtual AUTO kind.
ENV == "env"
MELTANO_YML == "meltano_yml"
DB == "db"
DEFAULT == "default"
AUTO == "auto"

ConcreteOrder == <<ENV, MELTANO_YML, DB>>
StoreOrder == ConcreteOrder \o <<DEFAULT, AUTO>>
ConcreteStores == {ConcreteOrder[i] : i \in 1..Len(ConcreteOrder)}
Stores == {StoreOrder[i] : i \in 1..Len(StoreOrder)}
\* stores whose manager can persist (the process environment and the
\* declared defaults are read-only)
WritableStores == {MELTANO_YML, DB}

Rank(store) == CHOOSE i \in 1..Len(StoreOrder) : StoreOrder[i] = store

\* SettingValueStore.overrides: strictly higher precedence
Overrides(a, b) == Rank(a) < Rank(b)


\* ------------------------------------------------------- setting definitions
\* SettingDefinition: canonical name, aliases, kind, flags, declared default.
SettingDef(name, aliases, kind, extra, secret, value) ==
  [name |-> name, aliases |-> aliases, kind |-> kind, is_extra |-> extra,
   is_redacted |-> secret, value |-> value]

\* "no definition" (Python None) for ad-hoc names
NoDef == SettingDef(<<>>, <<>>, "none", FALSE, FALSE, Null)

\* names used by the catalog and by callers
N_secret == <<"secret">>
N_pw == <<"pw">>
N_foo == <<"foo">>
N_bar == <<"bar">>
N_foo_x == <<"foo", "x">>
N_foo_y == <<"foo", "y">>
N_bar_x == <<"bar", "x">>
N_bar_z == <<"bar", "z">>
N_extra == <<"_debug">>

\* The declared catalog of one settings-service variant (_definitions):
\*   secret   a redacted string with alias pw
\*   foo      an object with alias bar and a declared default mapping
\*   foo.x, foo.y   integer settings nested under foo; foo.y is redacted
\*   _debug   an extra setting of kind boolean
\* bar.x and bar.z are declared nowhere: they exist only when meltano.yml
\* carries them.
FooDefault == Obj({<<<<"k">>, Str("d")>>})
Declared ==
  << SettingDef(N_secret, <<N_pw>>, "password", FALSE, TRUE, Null),
     SettingDef(N_foo, <<N_bar>>, "object", FALSE, FALSE, FooDefault),
     SettingDef(N_foo_x, <<>>, "integer", FALSE, FALSE, Null),
     SettingDef(N_foo_y, <<>>, "integer", FALSE, TRUE, Null),
     SettingDef(N_extra, <<>>, "boolean", TRUE, FALSE, Bool("false")) >>

\* The catalog of a variant that flags the nested setting foo.x as extra
DeclaredNestedExtra ==
  [i \in 1..Len(Declared) |->
     IF Declared[i].name = N_foo_x
     THEN [Declared[i] EXCEPT !.is_extra = TRUE] ELSE Declared[i]]

\* every name a caller may ask for and a store may hold, in the order a
\* flattened config lists its keys
KeyOrder ==
  <<N_secret, N_pw, N_foo, N_bar, N_foo_x, N_foo_y, N_bar_x, N_bar_z, N_extra>>
Names == {KeyOrder[i] : i \in 1..Len(KeyOrder)}

SeqToSet(q) == {q[i] : i \in 1..Len(q)}

\* SettingDefinition.cast_value: a string is parsed according to the kind
\* (boolean: truthy words; integer: decimal text; object: JSON text); any
\* other value is returned as it is.
TruthyWords == {"true", "1", "yes", "on"}
Digits == {"0", "1", "2"}
cast_value(def, value) ==
  IF value.k # "str" THEN value
  ELSE CASE def.kind = "boolean" ->
              Bool(IF value.s \in TruthyWords THEN "true" ELSE "false")
         [] def.kind = "integer" /\ value.s \in Digits -> Int(value.s)
         [] def.kind = "object" /\ value.s = "json" -> Obj(value.m)
         [] OTHER -> value

\* the values cast_value accepts for a definition: int() and json.loads()
\* raise on other text
Castable(def, value) ==
  \/ value.k # "str"
  \/ def.kind \notin {"integer", "object"}
  \/ def.kind = "integer" /\ value.s \in Digits
  \/ def.kind = "object" /\ value.s = "json"

\* SettingDefinition.stringify_value: strings stay, mappings become JSON
\* text, other values become their text
stringify_value(def, value) ==
  CASE value.k = "str" -> value
    [] value.k = "obj" -> Json(value.m)
    [] OTHER -> Str(value.s)

\* SettingDefinition.from_missing: one synthesized definition per key of the
\* flattened meltano.yml config that no declared definition is named after
from_missing(defs, flat_config) ==
  LET declared == {defs[i].name : i \in 1..Len(defs)}
      missing == SelectSeq(KeyOrder,
                   LAMBDA key : flat_config[key] # Null /\ key \notin declared)
  IN [i \in 1..Len(missing) |->
        SettingDef(missing[i], <<>>, "string", FALSE, FALSE, Null)]


\* ----------------------------------------------------- the service variant
\* _env_prefixes and _generic_env_prefix of the concrete variant
EnvPrefixes == <<"TAP_MOCK">>
GenericEnvPrefix == "MELTANO_EXTRACT"
\* show_hidden as given to __init__
show_hidden == TRUE

\* SettingDefinition.env_vars: one variable per prefix and per name or alias;
\* a boolean setting also gets the negated variable of each
EnvKey(prefix, name, no) == [prefix |-> prefix, name |-> name, no |-> no]
EnvVar(prefix, name, no) == [key |-> EnvKey(prefix, name, no), negated |-> no]
env_vars(def, prefixes) ==
  LET names == <<def.name>> \o def.aliases
      one(p, n) == IF def.kind = "boolean"
                   THEN <<EnvVar(p, n, FALSE), EnvVar(p, n, TRUE)>>
                   ELSE <<EnvVar(p, n, FALSE)>>
      RECURSIVE walk(_, _)
      walk(i, j) ==
        IF i > Len(prefixes) THEN <<>>
        ELSE IF j > Len(names) THEN walk(i + 1, 1)
        ELSE one(prefixes[i], names[j]) \o walk(i, j + 1)
  IN walk(1, 1)

\* SettingsService.setting_env_vars
setting_env_vars(def, include_generic) ==
  LET prefixes == IF include_generic /\ GenericEnvPrefix # ""
                  THEN EnvPrefixes \o <<GenericEnvPrefix>>
                  ELSE EnvPrefixes
  IN env_vars(def, prefixes)

\* --------------------------------------------------------------- managers
\* A manager is bound to one store; id tells the instances apart.
Manager(id, store, bulk) == [id |-> id, store |-> store, bulk |-> bulk]
NoMgr == Manager(0, "none", FALSE)

\* Whether the manager of `store` can perform `op` at all: the environment
\* and the defaults cannot persist, and the database store needs the system
\* database.  Otherwise the manager fails with StoreNotSupportedError.
Supported(store, op, db_ok) ==
  /\ (op \in {"set", "unset", "reset"} => store \notin {ENV, DEFAULT})
  /\ (store = DB => db_ok)

\* the key a manager files a setting under: the canonical name when the
\* setting has a definition
StoreKey(name, def) == IF def # NoDef THEN def.name ELSE name

\* get of the manager of one concrete store, or of the defaults
StoreValue(store, name, def, ctx) ==
  IF store = DEFAULT THEN def.value ELSE ctx.stores[store][StoreKey(name, def)]

\* AutoStoreManager.get: the concrete stores in precedence order, then the
\* default; a store that is not supported is skipped; the first store with
\* a value other than None ends the search
RECURSIVE AutoGet(_, _, _, _, _)
AutoGet(i, name, def, ctx, found) ==
  IF i > Len(ConcreteOrder) + 1 THEN found
  ELSE LET store == StoreOrder[i] IN
       IF ~Supported(store, "get", ctx.db_ok)
       THEN AutoGet(i + 1, name, def, ctx, found)
       ELSE LET v == StoreValue(store, name, def, ctx)
                hit == [value |-> v, src |-> store, err |-> ""]
            IN IF v # Null THEN hit ELSE AutoGet(i + 1, name, def, ctx, hit)

\* the text "$VAR": a value that refers to an environment variable
VarRef(key) == [k |-> "str", s |-> "$", m |-> {key}]
\* interpolation of a value against expandible_env: a reference to a
\* variable of the mapping becomes the text the mapping has for it
Expand(value, expandible_env) ==
  IF value.k = "str" /\ value.s = "$"
     /\ \E e \in expandible_env : e[1] \in value.m
  THEN (CHOOSE e \in expandible_env : e[1] \in value.m)[2]
  ELSE value
Interpolated(got, expandible_env) ==
  [got EXCEPT !.value = Expand(got.value, expandible_env)]

\* manager.get(name, setting_def, expandible_env): the value, interpolated
\* against expandible_env, and the metadata the manager adds (src = "" when
\* it adds no source)
ManagerGet(mgr, name, def, expandible_env, ctx) ==
  Interpolated(
    IF mgr.store = AUTO
    THEN AutoGet(1, name, def, ctx, [value |-> Null, src |-> DEFAULT, err |-> ""])
    ELSE IF ~Supported(mgr.store, "get", ctx.db_ok)
    THEN [value |-> Null, src |-> "", err |-> "StoreNotSupportedError"]
    ELSE [value |-> StoreValue(mgr.store, name, def, ctx), src |-> "", err |-> ""],
    expandible_env)

\* one entry of the log of calls made on managers
Call(mgr, op, name) ==
  [mgr |-> mgr.id, store |-> mgr.store, bulk |-> mgr.bulk, op |-> op, name |-> name]


\* ------------------------------------------------------------ the service
\* SettingsService.definitions: the catalog is merged on first use and kept
\* in _setting_defs (cache.set = FALSE is _setting_defs = None)
NoCache == [set |-> FALSE, defs |-> <<>>]
\* MergedCatalog that merges anew on every call
MergedCatalog_fresh(cache, declared, flat_config) ==
  [set |-> TRUE,
   defs |-> SelectSeq(declared, LAMBDA d : d.kind # "hidden" \/ show_hidden)
            \o from_missing(declared, flat_config)]

MergedCatalog(cache, declared, flat_config) ==
  IF cache.set THEN cache
  ELSE [set |-> TRUE,
        defs |-> SelectSeq(declared,
                   LAMBDA d : d.kind # "hidden" \/ show_hidden)
                 \o from_missing(declared, flat_config)]

\* the extras filter of definitions(): "all" is extras=None
definitions(setting_defs, extras) ==
  IF extras = "all" THEN setting_defs
  ELSE SelectSeq(setting_defs,
         LAMBDA d : \/ extras = "true" /\ d.is_extra
                    \/ extras = "false" /\ ~d.is_extra)

\* find_setting that matches canonical names only
find_setting_by_name(setting_defs, name) ==
  LET hits == SelectSeq(setting_defs, LAMBDA d : d.name = name)
  IN IF hits = <<>> THEN NoDef ELSE hits[1]

\* SettingsService.find_setting: the first definition with that name or
\* alias; NoDef stands for SettingMissingError
find_setting(setting_defs, name) ==
  LET hits == SelectSeq(setting_defs,
                LAMBDA d : d.name = name \/ name \in SeqToSet(d.aliases))
  IN IF hits = <<>> THEN NoDef ELSE hits[1]

\* name.startswith(key + ".") and name[len(key + "."):]
NoPrefix == <<>>
StartsWith(name, prefix) ==
  Len(name) > Len(prefix) /\ SubSeq(name, 1, Len(prefix)) = prefix
StripPrefix(name, prefix) == SubSeq(name, Len(prefix) + 1, Len(name))

\* the metadata envelope; has_uncast and redacted say which optional keys
\* are present
Metadata(name, source, def) ==
  [name |-> name, path |-> <<>>, source |-> source, store |-> "",
   setting |-> def, has_uncast |-> FALSE, uncast_value |-> Null,
   redacted |-> FALSE]

\* dict assignment d[key] = entry on an insertion-ordered mapping
DictPut(d, entry) ==
  IF \E i \in 1..Len(d) : d[i].key = entry.key
  THEN [i \in 1..Len(d) |-> IF d[i].key = entry.key THEN entry ELSE d[i]]
  ELSE Append(d, entry)
DictKeys(d) == {d[i].key : i \in 1..Len(d)}

\* result of a read: value, metadata, the manager calls it made, the number
\* of managers created so far, and the exception it ended with ("" = none)
ReadResult(value, metadata, calls, nm, err) ==
  [value |-> value, metadata |-> metadata, calls |-> calls, nm |-> nm, err |-> err]

\* CastAndRedact with the redaction step left out
CastAndRedact_leaky(value, metadata, def, redacted) ==
  LET cast == cast_value(def, value)
  IN [value |-> cast,
      metadata |-> IF cast # value
                   THEN [metadata EXCEPT !.has_uncast = TRUE, !.uncast_value = value]
                   ELSE metadata]

\* the cast and redaction steps that end get_with_metadata
CastAndRedact(value, metadata, def, redacted) ==
  LET cast == cast_value(def, value)
      md1 == IF cast # value
             THEN [metadata EXCEPT !.has_uncast = TRUE, !.uncast_value = value]
             ELSE metadata
  IN IF redacted /\ Truthy(cast) /\ def.is_redacted
     THEN [value |-> REDACTED_VALUE, metadata |-> [md1 EXCEPT !.redacted = TRUE]]
     ELSE [value |-> cast, metadata |-> md1]

\* GotMetadata with the manager's metadata dropped
GotMetadata_ignored(md, got) == md

\* metadata.update(get_metadata): the manager may name the source
GotMetadata(md, got) == IF got.src # "" THEN [md EXCEPT !.source = got.src] ELSE md

\* the read result made of the cast and redacted value
FinishResult(out, calls, nm) == ReadResult(out.value, out.metadata, calls, nm, "")

\* MergeNested that never promotes the source of the object
RECURSIVE MergeNested_unpromoted(_, _, _)
MergeNested_unpromoted(flat, i, acc) ==
  IF i > Len(flat) THEN acc
  ELSE IF flat[i].key \in DictKeys(acc.value)
  THEN MergeNested_unpromoted(flat, i + 1, acc)
  ELSE MergeNested_unpromoted(flat, i + 1,
         [value |-> Append(acc.value, [key |-> flat[i].key, value |-> flat[i].value]),
          source |-> acc.source])

\* MergeNested that lets a skipped key promote the source as well
RECURSIVE MergeNested_greedy(_, _, _)
MergeNested_greedy(flat, i, acc) ==
  IF i > Len(flat) THEN acc
  ELSE MergeNested_greedy(flat, i + 1,
         [value |-> IF flat[i].key \in DictKeys(acc.value) THEN acc.value
                    ELSE Append(acc.value,
                           [key |-> flat[i].key, value |-> flat[i].value]),
          source |-> IF Overrides(flat[i].metadata.source, acc.source)
                     THEN flat[i].metadata.source ELSE acc.source])

\* the nested entries of one config_with_metadata pass merged into the
\* object being assembled: a key already present is skipped
RECURSIVE MergeNested(_, _, _)
MergeNested(flat, i, acc) ==
  IF i > Len(flat) THEN acc
  ELSE IF flat[i].key \in DictKeys(acc.value) THEN MergeNested(flat, i + 1, acc)
  ELSE MergeNested(flat, i + 1,
         [value |-> Append(acc.value, [key |-> flat[i].key, value |-> flat[i].value]),
          source |-> IF Overrides(flat[i].metadata.source, acc.source)
                     THEN flat[i].metadata.source ELSE acc.source])

\* EnvOf that emits the negated variables too
RECURSIVE EnvOf_negated(_, _, _)
EnvOf_negated(config, i, env) ==
  IF i > Len(config) THEN env
  ELSE IF config[i].value = Null THEN EnvOf_negated(config, i + 1, env)
  ELSE LET def == config[i].metadata.setting
           text == stringify_value(def, config[i].value)
           vars == setting_env_vars(def, TRUE)
           keys == {vars[j].key : j \in 1..Len(vars)}
       IN EnvOf_negated(config, i + 1,
            {e \in env : e[1] \notin keys} \cup {<<key, text>> : key \in keys})

\* as_env's loop over the resolved config: env[env_var.key] = value
RECURSIVE EnvOf(_, _, _)
EnvOf(config, i, env) ==
  IF i > Len(config) THEN env
  ELSE IF config[i].value = Null THEN EnvOf(config, i + 1, env)
  ELSE LET def == config[i].metadata.setting
           text == stringify_value(def, config[i].value)
           vars == setting_env_vars(def, TRUE)
           keys == {vars[j].key : j \in {j \in 1..Len(vars) : ~vars[j].negated}}
       IN EnvOf(config, i + 1,
            {e \in env : e[1] \notin keys} \cup {<<key, text>> : key \in keys})

RECURSIVE get_with_metadata(_, _, _, _, _, _, _, _)
RECURSIVE ConfigLoop(_, _, _, _, _, _, _, _, _)

\* one turn of the loop of config_with_metadata: config[name] = {**metadata,
\* "value": value}, or the exception of the read
ConfigStep(acc, key, r) ==
  [config |-> IF r.err = ""
              THEN DictPut(acc.config,
                     [key |-> key, value |-> r.value, metadata |-> r.metadata])
              ELSE acc.config,
   calls |-> acc.calls \o r.calls, nm |-> r.nm, err |-> r.err]

\* the loop of config_with_metadata over the definitions
ConfigLoop(defs, i, prefix, source, mgr, redacted, ctx, acc, depth) ==
  IF i > Len(defs) \/ acc.err # "" THEN acc
  ELSE IF prefix # NoPrefix /\ ~StartsWith(defs[i].name, prefix)
  THEN ConfigLoop(defs, i + 1, prefix, source, mgr, redacted, ctx, acc, depth)
  ELSE ConfigLoop(defs, i + 1, prefix, source, mgr, redacted, ctx,
         ConfigStep(acc,
           IF prefix # NoPrefix THEN StripPrefix(defs[i].name, prefix)
           ELSE defs[i].name,
           get_with_metadata(defs[i].name, redacted, source, mgr, defs[i], ctx,
                             acc.nm, depth)),
         depth)

\* config_with_metadata that leaves every key to a manager of its own
config_with_metadata_unshared(prefix, extras, source, source_manager, redacted, ctx, nm, depth) ==
  ConfigLoop(definitions(ctx.defs, extras), 1, prefix, source, NoMgr,
    redacted, ctx,
    [config |-> <<>>, calls |-> <<>>, nm |-> nm, err |-> ""],
    depth)

\* SettingsService.config_with_metadata
config_with_metadata(prefix, extras, source, source_manager, redacted, ctx, nm, depth) ==
  ConfigLoop(definitions(ctx.defs, extras), 1, prefix, source,
    IF source_manager # NoMgr THEN [source_manager EXCEPT !.bulk = TRUE]
    ELSE Manager(nm + 1, source, TRUE),
    redacted, ctx,
    [config |-> <<>>, calls |-> <<>>,
     nm |-> IF source_manager # NoMgr THEN nm ELSE nm + 1, err |-> ""],
    depth)

\* the environment mapping as_env builds from the resolved config
EnvResult(full) ==
  [env |-> IF full.err = "" THEN EnvOf(full.config, 1, {}) ELSE {},
   calls |-> full.calls, nm |-> full.nm, err |-> full.err]

\* SettingsService.as_env
as_env(prefix, extras, source, source_manager, redacted, ctx, nm, depth) ==
  EnvResult(config_with_metadata(prefix, extras, source, source_manager,
                                 redacted, ctx, nm, depth))

\* the bare values as_dict keeps of the resolved config
DictResult(full) ==
  [config |-> [i \in 1..Len(full.config) |->
                 [key |-> full.config[i].key, value |-> full.config[i].value]],
   calls |-> full.calls, nm |-> full.nm, err |-> full.err]

\* SettingsService.as_dict (process=False)
as_dict(prefix, extras, source, source_manager, redacted, ctx, nm, depth) ==
  DictResult(config_with_metadata(prefix, extras, source, source_manager,
                                  redacted, ctx, nm, depth))

\* one turn of the loop of object assembly over the name and the aliases
AssembleStep(acc, flat) ==
  IF flat.err # ""
  THEN [acc EXCEPT !.calls = acc.calls \o flat.calls, !.nm = flat.nm,
                   !.err = flat.err]
  ELSE MergeNested(flat.config, 1, [value |-> acc.value, source |-> acc.source])
         @@ [calls |-> acc.calls \o flat.calls, nm |-> flat.nm, err |-> ""]

\* object assembly of get_with_metadata: the nested settings under the
\* canonical name, then under each alias
RECURSIVE AssembleObject(_, _, _, _, _, _, _, _)
AssembleObject(keys, i, source, source_manager, redacted, ctx, acc, depth) ==
  IF i > Len(keys) \/ acc.err # "" THEN acc
  ELSE AssembleObject(keys, i + 1, source, source_manager, redacted, ctx,
         AssembleStep(acc,
           config_with_metadata(keys[i], "all", source, source_manager,
                                redacted, ctx, acc.nm, depth)),
         depth)

NoObject(nm) ==
  [value |-> <<>>, source |-> DEFAULT, calls |-> <<>>, nm |-> nm, err |-> ""]

\* the end of get_with_metadata for a setting with a definition: the
\* assembled object, if any, replaces the value; then cast (ValueError for
\* text cast_value cannot parse) and redaction
GetFinish(got, md, calls, def, redacted, assemble, obj) ==
  IF obj.err # "" THEN ReadResult(Null, md, calls \o obj.calls, obj.nm, obj.err)
  ELSE IF ~(assemble /\ obj.value # <<>>) /\ ~Castable(def, got.value)
  THEN ReadResult(Null, md, calls \o obj.calls, obj.nm, "ValueError")
  ELSE FinishResult(
         CastAndRedact(
           IF assemble /\ obj.value # <<>>
           THEN Obj({<<obj.value[j].key, obj.value[j].value>> :
                       j \in 1..Len(obj.value)})
           ELSE got.value,
           IF assemble /\ obj.value # <<>>
           THEN [md EXCEPT !.source = obj.source] ELSE md,
           def, redacted),
         calls \o obj.calls, obj.nm)

\* GetAfterManager that swallows the manager's failure and answers with the
\* declared default
GetAfterManager_fallback(got, md, calls, nm, def, redacted, source, source_manager, ctx, depth) ==
  IF got.err # ""
  THEN ReadResult(def.value, [md EXCEPT !.source = DEFAULT], calls, nm, "")
  ELSE IF def = NoDef
  THEN ReadResult(got.value, GotMetadata(md, got), calls, nm, "")
  ELSE GetFinish(got, GotMetadata(md, got), calls, def, redacted,
         def.kind = "object" /\ GotMetadata(md, got).source = DEFAULT,
         IF def.kind = "object" /\ GotMetadata(md, got).source = DEFAULT
         THEN AssembleObject(<<def.name>> \o def.aliases, 1, source,
                source_manager, redacted, ctx, NoObject(nm), depth - 1)
         ELSE NoObject(nm))

\* get_with_metadata once the manager has answered
GetAfterManager(got, md, calls, nm, def, redacted, source, source_manager, ctx, depth) ==
  IF got.err # "" THEN ReadResult(Null, md, calls, nm, got.err)
  ELSE IF def = NoDef
  THEN ReadResult(got.value, GotMetadata(md, got), calls, nm, "")
  ELSE GetFinish(got, GotMetadata(md, got), calls, def, redacted,
         def.kind = "object" /\ GotMetadata(md, got).source = DEFAULT,
         IF def.kind = "object" /\ GotMetadata(md, got).source = DEFAULT
         THEN AssembleObject(<<def.name>> \o def.aliases, 1, source,
                source_manager, redacted, ctx, NoObject(nm), depth - 1)
         ELSE NoObject(nm))

\* GetAfterEnv that writes the value it resolved back through the manager
GetAfterEnv_write_back(ex, name, md, def, redacted, source, source_manager, ctx, depth) ==
  IF ex.err # "" THEN ReadResult(Null, md, ex.calls, ex.nm, ex.err)
  ELSE GetAfterManager(
         ManagerGet(IF source_manager # NoMgr THEN source_manager
                    ELSE Manager(ex.nm + 1, source, FALSE),
                    name, def, ex.env, ctx),
         md,
         ex.calls \o
           << Call(IF source_manager # NoMgr THEN source_manager
                   ELSE Manager(ex.nm + 1, source, FALSE), "get", name),
              Call(IF source_manager # NoMgr THEN source_manager
                   ELSE Manager(ex.nm + 1, source, FALSE), "set", name) >>,
         IF source_manager # NoMgr THEN ex.nm ELSE ex.nm + 1,
         def, redacted, source, source_manager, ctx, depth)

\* get_with_metadata once expandible_env is there: the manager is the one
\* passed in, or a new one of the source
GetAfterEnv(ex, name, md, def, redacted, source, source_manager, ctx, depth) ==
  IF ex.err # "" THEN ReadResult(Null, md, ex.calls, ex.nm, ex.err)
  ELSE GetAfterManager(
         ManagerGet(IF source_manager # NoMgr THEN source_manager
                    ELSE Manager(ex.nm + 1, source, FALSE),
                    name, def, ex.env, ctx),
         md,
         Append(ex.calls,
                Call(IF source_manager # NoMgr THEN source_manager
                     ELSE Manager(ex.nm + 1, source, FALSE), "get", name)),
         IF source_manager # NoMgr THEN ex.nm ELSE ex.nm + 1,
         def, redacted, source, source_manager, ctx, depth)

\* get_with_metadata with the definition resolved.  The as_env call for an
\* extra hands the manager passed in to config_with_metadata, which sets its
\* bulk flag: the manager stays in bulk mode for the get that follows.
GetResolved(name, def, redacted, source, source_manager, ctx, nm, depth) ==
  IF depth = 0
  THEN ReadResult(Null, Metadata(name, source, def), <<>>, nm, "RecursionError")
  ELSE GetAfterEnv(
         IF def # NoDef /\ def.is_extra
         THEN as_env(NoPrefix, "false", source, source_manager, redacted, ctx,
                     nm, depth - 1)
         ELSE [env |-> {}, calls |-> <<>>, nm |-> nm, err |-> ""],
         name, Metadata(name, source, def), def, redacted, source,
         IF def # NoDef /\ def.is_extra /\ source_manager # NoMgr
         THEN [source_manager EXCEPT !.bulk = TRUE] ELSE source_manager,
         ctx, depth)

\* get_with_metadata that lets SettingMissingError out
get_with_metadata_strict(name, redacted, source, source_manager, setting_def, ctx, nm, depth) ==
  IF setting_def # NoDef
  THEN GetResolved(setting_def.name, setting_def, redacted, source,
                   source_manager, ctx, nm, depth)
  ELSE IF find_setting(ctx.defs, name) # NoDef
  THEN GetResolved(find_setting(ctx.defs, name).name, find_setting(ctx.defs, name),
                   redacted, source, source_manager, ctx, nm, depth)
  ELSE ReadResult(Null, Metadata(name, source, NoDef), <<>>, nm,
                  "SettingMissingError")

\* SettingsService.get_with_metadata.  setting_def is the definition passed
\* in, or NoDef; depth is the call depth left before the interpreter gives
\* up with RecursionError.
get_with_metadata(name, redacted, source, source_manager, setting_def, ctx, nm, depth) ==
  IF setting_def # NoDef
  THEN GetResolved(setting_def.name, setting_def, redacted, source,
                   source_manager, ctx, nm, depth)
  ELSE IF find_setting(ctx.defs, name) # NoDef
  THEN GetResolved(find_setting(ctx.defs, name).name, find_setting(ctx.defs, name),
                   redacted, source, source_manager, ctx, nm, depth)
  ELSE GetResolved(name, NoDef, redacted, source, source_manager, ctx, nm, depth)

\* ------------------------------------------------------------- write path
\* ".".join(path): the segments of the path elements in order
RECURSIVE JoinPath(_)
JoinPath(path) == IF path = <<>> THEN <<>> ELSE Head(path) \o JoinPath(Tail(path))

\* result of a write: the returned value and metadata, the manager calls
\* made, the store contents afterwards and the exception ("" = none)
WriteResult(value, metadata, calls, stores, err) ==
  [value |-> value, metadata |-> metadata, calls |-> calls, stores |-> stores,
   err |-> err]

\* the stores a write through the manager of `store` goes to: the store
\* itself.  What the manager of the AUTO store does with a write is laid
\* down nowhere: the stores it goes to, auto_stores, are an input of the
\* call, and it fails when one of them cannot persist.
Targets(store, auto_stores) == IF store # AUTO THEN {store} ELSE auto_stores

\* manager.set / manager.unset / manager.reset of the manager of `store`
ManagerWrite(store, op, key, value, ctx, auto_stores) ==
  LET targets == Targets(store, auto_stores)
      ok == \A t \in targets : Supported(t, op, ctx.db_ok)
      after(t) == CASE op = "set" -> [ctx.stores[t] EXCEPT ![key] = value]
                    [] op = "unset" -> [ctx.stores[t] EXCEPT ![key] = Null]
                    [] OTHER -> [n \in Names |-> Null]
  IN IF ~ok THEN [stores |-> ctx.stores, err |-> "StoreNotSupportedError"]
     ELSE [stores |-> [t \in ConcreteStores |->
                         IF t \in targets THEN after(t) ELSE ctx.stores[t]],
           err |-> ""]

\* the metadata a manager returns from set, unset and reset: it may name
\* the store it wrote to (store = "" when it has no such key)
ManagerMetadata(store) == [store |-> store]
NoManagerMetadata == ManagerMetadata("")

WriteMetadata(name, path, store, def) ==
  [Metadata(name, "", def) EXCEPT !.path = path, !.store = store]

\* the store parameter of set_with_metadata, unset and reset: its default
\* is SettingValueStore.AUTO
Omitted == "omitted"
StoreParam(store_arg) == IF store_arg = Omitted THEN AUTO ELSE store_arg

\* the outcome of a write once the manager has been called:
\* metadata.update(set_metadata) puts the manager's keys over the envelope's
Delegated(done, value, metadata, call, set_metadata) ==
  WriteResult(IF done.err = "" THEN value ELSE Null,
              IF done.err = "" /\ set_metadata.store # ""
              THEN [metadata EXCEPT !.store = set_metadata.store] ELSE metadata,
              <<call>>, done.stores, done.err)

\* the outcome of a write that cast_value ends with ValueError: no manager
\* is made and nothing is returned
CastFailed(name, path, store, def, ctx) ==
  WriteResult(Null, WriteMetadata(name, path, store, def), <<>>, ctx.stores,
              "ValueError")

\* SetResolved that suppresses every write the way it suppresses the sentinel
SetResolved_suppressed(name, path, value, store, def, ctx, auto_stores, set_metadata) ==
  WriteResult(IF def # NoDef THEN cast_value(def, value) ELSE value,
              WriteMetadata(name, path, store, def), <<>>, ctx.stores, "")

\* SetResolved that hands the value to the manager as given
SetResolved_uncast(name, path, value, store, def, ctx, auto_stores, set_metadata) ==
  IF value = REDACTED_VALUE
  THEN WriteResult(Null,
         [WriteMetadata(name, path, store, def) EXCEPT !.redacted = TRUE],
         <<>>, ctx.stores, "")
  ELSE IF def # NoDef /\ ~Castable(def, value)
  THEN CastFailed(name, path, store, def, ctx)
  ELSE Delegated(
         ManagerWrite(store, "set", StoreKey(name, def), value, ctx, auto_stores),
         value, WriteMetadata(name, path, store, def),
         Call(Manager(1, store, FALSE), "set", name), set_metadata)

\* SetResolved without the guard on the redaction sentinel
SetResolved_unguarded(name, path, value, store, def, ctx, auto_stores, set_metadata) ==
  IF def # NoDef /\ ~Castable(def, value)
  THEN CastFailed(name, path, store, def, ctx)
  ELSE Delegated(
         ManagerWrite(store, "set", StoreKey(name, def), value, ctx, auto_stores),
         value, WriteMetadata(name, path, store, def),
         Call(Manager(1, store, FALSE), "set", name), set_metadata)

\* set_with_metadata with the definition resolved; set_metadata is what the
\* manager's set returns
SetResolved(name, path, value, store, def, ctx, auto_stores, set_metadata) ==
  IF value = REDACTED_VALUE
  THEN WriteResult(Null,
         [WriteMetadata(name, path, store, def) EXCEPT !.redacted = TRUE],
         <<>>, ctx.stores, "")
  ELSE IF def # NoDef /\ ~Castable(def, value)
  THEN CastFailed(name, path, store, def, ctx)
  ELSE IF def # NoDef /\ cast_value(def, value) # value
  THEN Delegated(
         ManagerWrite(store, "set", StoreKey(name, def), cast_value(def, value),
                      ctx, auto_stores),
         cast_value(def, value),
         [WriteMetadata(name, path, store, def) EXCEPT
            !.has_uncast = TRUE, !.uncast_value = value],
         Call(Manager(1, store, FALSE), "set", name), set_metadata)
  ELSE Delegated(
         ManagerWrite(store, "set", StoreKey(name, def), value, ctx, auto_stores),
         value, WriteMetadata(name, path, store, def),
         Call(Manager(1, store, FALSE), "set", name), set_metadata)

\* SettingsService.set_with_metadata
set_with_metadata(path, value, store_arg, ctx, auto_stores, set_metadata) ==
  SetResolved(JoinPath(path), path, value, StoreParam(store_arg),
              find_setting(ctx.defs, JoinPath(path)), ctx, auto_stores,
              set_metadata)

\* unset with the definition resolved; unset_metadata is what the manager's
\* unset returns
UnsetResolved(name, path, store, def, ctx, auto_stores, unset_metadata) ==
  Delegated(ManagerWrite(store, "unset", StoreKey(name, def), Null, ctx,
                         auto_stores),
            Null, WriteMetadata(name, path, store, def),
            Call(Manager(1, store, FALSE), "unset", name), unset_metadata)

\* SettingsService.unset
unset(path, store_arg, ctx, auto_stores, unset_metadata) ==
  UnsetResolved(JoinPath(path), path, StoreParam(store_arg),
                find_setting(ctx.defs, JoinPath(path)), ctx, auto_stores,
                unset_metadata)

\* SettingsService.reset; reset_metadata is what the manager's reset returns
reset(store_arg, ctx, auto_stores, reset_metadata) ==
  Delegated(ManagerWrite(StoreParam(store_arg), "reset", <<>>, Null, ctx,
                         auto_stores),
            Null, WriteMetadata(<<>>, <<>>, StoreParam(store_arg), NoDef),
            Call(Manager(1, StoreParam(store_arg), FALSE), "reset", <<>>),
            reset_metadata)

\* ---------------------------------------------------------- state machine
VARIABLES
  stores,        \* contents of the concrete stores: store -> name -> value
  catalog,       \* SettingsService._definitions, the declared catalog
  setting_defs,  \* SettingsService._setting_defs, the cached catalog
  db_ok,         \* whether the system database is there for the db store
  last,          \* the last operation called on the service and its outcome
  nwrites,       \* number of set, unset and reset calls made so far
  heap,          \* the mapping objects that exist: object id -> key -> value
  instances,     \* the service instances: how each was constructed and the
                 \* objects its env_override and config_override refer to
  changed        \* the last change a caller made to an override mapping

service == <<stores, catalog, setting_defs, db_ok, last, nwrites>>
overrides == <<heap, instances, changed>>
vars == <<stores, catalog, setting_defs, db_ok, last, nwrites, heap, instances,
          changed>>

\* bounds of the model
MaxWrites == 1
MaxDepth == 3
MaxChanges == 2

\* ----------------------------------------------- the override mappings
\* Two service instances may exist; the one the operations below are called
\* on is instance 1.
Instances == {1, 2}
OverrideKeys == {"A", "B"}
OverrideValues == {"1", "2"}
Absent == "unset"
EmptyMapping == [k \in OverrideKeys |-> Absent]
\* The default values of the parameters env_override={} and
\* config_override={}: one mapping object each, made when the function is
\* defined and handed to every call that leaves the argument out.
DefaultEnvOverride == 1
DefaultConfigOverride == 2
\* the mapping object a caller makes to pass as the argument
OwnEnvOverride(i) == 1 + 2 * i
OwnConfigOverride(i) == 2 + 2 * i
Objects ==
  {DefaultEnvOverride, DefaultConfigOverride}
    \cup {OwnEnvOverride(i) : i \in Instances}
    \cup {OwnConfigOverride(i) : i \in Instances}
NoInstance ==
  [built |-> FALSE, env_given |-> FALSE, config_given |-> FALSE,
   env_override |-> 0, config_override |-> 0]
\* SettingsService.__init__: the arguments are stored as they come,
\* without a copy
Constructed(i, env_given, config_given) ==
  [built |-> TRUE, env_given |-> env_given, config_given |-> config_given,
   env_override |-> IF env_given THEN OwnEnvOverride(i) ELSE DefaultEnvOverride,
   config_override |-> IF config_given THEN OwnConfigOverride(i)
                       ELSE DefaultConfigOverride]
NoChange == [by |-> 0, which |-> "", key |-> "", n |-> 0]
\* os.environ, and SettingsService.env: {**os.environ, **self.env_override}
OsEnviron == [k \in OverrideKeys |-> IF k = "B" THEN "1" ELSE Absent]
service_env(i) ==
  [k \in OverrideKeys |->
     IF heap[instances[i].env_override][k] # Absent
     THEN heap[instances[i].env_override][k] ELSE OsEnviron[k]]

Empty == [n \in Names |-> Null]
Holding(pairs) ==
  [n \in Names |-> IF \E p \in pairs : p[1] = n
                   THEN (CHOOSE p \in pairs : p[1] = n)[2] ELSE Null]
Seed(env, yml, db) ==
  [s \in ConcreteStores |->
     CASE s = ENV -> Holding(env) [] s = MELTANO_YML -> Holding(yml)
       [] OTHER -> Holding(db)]

\* what the stores may hold when the service is constructed: nothing; a
\* secret in the environment and in meltano.yml, with undeclared keys under
\* the alias of foo; nested keys of foo in
\* meltano.yml, with an undeclared key; nested keys in the environment (as
\* text) and a secret in the database; nested keys in the database, with a
\* secret in meltano.yml that the value of the extra _debug refers to
Seeds ==
  { Seed({}, {}, {}),
    Seed({<<N_secret, Str("a")>>, <<N_extra, Str("1")>>, <<N_bar_x, Str("2")>>},
         {<<N_secret, Str("b")>>, <<N_bar_x, Int("2")>>, <<N_bar_z, Int("2")>>},
         {}),
    Seed({}, {<<N_foo_x, Int("1")>>, <<N_foo_y, Int("2")>>,
              <<N_bar_x, Int("2")>>}, {<<N_secret, Str("")>>}),
    Seed({<<N_foo_x, Str("1")>>, <<N_foo_y, Str("2")>>}, {},
         {<<N_secret, Str("b")>>}),
    Seed({}, {<<N_secret, Str("a")>>,
              <<N_extra, VarRef(EnvKey("TAP_MOCK", N_secret, FALSE))>>},
         {<<N_foo_x, Int("1")>>, <<N_foo_y, Int("2")>>, <<N_secret, Str("b")>>}) }

\* inputs of the operations
Sources == {AUTO, DEFAULT, ENV, MELTANO_YML, DB}
StoreArgs == ConcreteStores \cup {Omitted}
Paths == {<<N_secret>>, <<N_pw>>, <<N_foo_x>>, <<<<"foo">>, <<"x">>>>,
          <<N_bar_x>>, <<N_extra>>}
WriteValues == {Str("a"), Str(""), Str("1"), REDACTED_VALUE}
ConfigArgs == {<<NoPrefix, "all">>, <<NoPrefix, "false">>, <<NoPrefix, "true">>,
               <<N_foo, "all">>}

NoResult ==
  [op |-> "init", name |-> <<>>, path |-> <<>>, prefix |-> NoPrefix,
   extras |-> "all", redacted |-> FALSE, source |-> "", store_arg |-> "",
   given |-> Null, value |-> Null, metadata |-> Metadata(<<>>, "", NoDef),
   config |-> <<>>, env |-> {}, found |-> NoDef, calls |-> <<>>, err |-> ""]

Init ==
  /\ heap = [o \in Objects |-> EmptyMapping]
  /\ instances = [i \in Instances |->
                    IF i = 1 THEN Constructed(1, FALSE, FALSE) ELSE NoInstance]
  /\ changed = NoChange
  /\ stores \in Seeds
  /\ catalog = Declared
  /\ setting_defs = NoCache
  /\ db_ok \in BOOLEAN
  /\ last = NoResult
  /\ nwrites = 0

\* the catalog an operation works with: merged now unless already cached
CatalogNow == MergedCatalog(setting_defs, catalog, stores[MELTANO_YML])
Ctx == [stores |-> stores, defs |-> CatalogNow.defs, db_ok |-> db_ok]

\* what the caller gets of a result: everything but the bookkeeping
Outcome(r) == [f \in (DOMAIN r) \ {"nm", "stores"} |-> r[f]]

\* a write ends: the stores are as the manager left them
Written(call, r) ==
  /\ stores' = r.stores
  /\ last' = call @@ Outcome(r) @@ NoResult

\* the service is idle: the previous call has returned to its caller
Idle == last.op = "init"

\* find_setting(name)
FindSetting(name) ==
  /\ Idle
  /\ setting_defs' = CatalogNow
  /\ LET def == find_setting(CatalogNow.defs, name)
     IN last' = [NoResult EXCEPT !.op = "find_setting", !.name = name,
                   !.found = def,
                   !.err = IF def = NoDef THEN "SettingMissingError" ELSE ""]
  /\ UNCHANGED <<overrides, stores, catalog, db_ok, nwrites>>

\* get_with_metadata(name, redacted=..., source=...)
GetWithMetadata(name, redacted, source) ==
  /\ Idle
  /\ setting_defs' = CatalogNow
  /\ last' = [op |-> "get_with_metadata", name |-> name, redacted |-> redacted,
              source |-> source]
             @@ Outcome(get_with_metadata(name, redacted, source, NoMgr, NoDef,
                                          Ctx, 0, MaxDepth))
             @@ NoResult
  /\ UNCHANGED <<overrides, stores, catalog, db_ok, nwrites>>

\* config_with_metadata(prefix=..., extras=..., source=..., redacted=...)
ConfigWithMetadata(prefix, extras, source, redacted) ==
  /\ Idle
  /\ setting_defs' = CatalogNow
  /\ last' = [op |-> "config_with_metadata", prefix |-> prefix, extras |-> extras,
              redacted |-> redacted, source |-> source]
             @@ Outcome(config_with_metadata(prefix, extras, source, NoMgr, redacted, Ctx, 0,
                        MaxDepth))
             @@ NoResult
  /\ UNCHANGED <<overrides, stores, catalog, db_ok, nwrites>>

\* as_dict(prefix=..., extras=..., source=..., redacted=...)
AsDict(prefix, extras, source, redacted) ==
  /\ Idle
  /\ setting_defs' = CatalogNow
  /\ last' = [op |-> "as_dict", prefix |-> prefix, extras |-> extras,
              redacted |-> redacted, source |-> source]
             @@ Outcome(as_dict(prefix, extras, source, NoMgr, redacted, Ctx, 0,
                        MaxDepth))
             @@ NoResult
  /\ UNCHANGED <<overrides, stores, catalog, db_ok, nwrites>>

\* as_env(prefix=..., extras=..., source=..., redacted=...)
AsEnv(prefix, extras, source, redacted) ==
  /\ Idle
  /\ setting_defs' = CatalogNow
  /\ last' = [op |-> "as_env", prefix |-> prefix, extras |-> extras,
              redacted |-> redacted, source |-> source]
             @@ Outcome(as_env(prefix, extras, source, NoMgr, redacted, Ctx, 0,
                        MaxDepth))
             @@ NoResult
  /\ UNCHANGED <<overrides, stores, catalog, db_ok, nwrites>>

\* what a manager may return from a write through `store`: metadata that
\* names no store, or one of the stores the write went to
Returned(store, auto_stores) ==
  {NoManagerMetadata} \cup {ManagerMetadata(t) : t \in Targets(store, auto_stores)}

\* set_with_metadata(path, value, store=...)
SetWithMetadata(path, value, store_arg, auto_stores, set_metadata) ==
  /\ Idle
  /\ nwrites < MaxWrites
  /\ StoreParam(store_arg) # AUTO => auto_stores = {}
  /\ set_metadata \in Returned(StoreParam(store_arg), auto_stores)
  /\ setting_defs' = CatalogNow
  /\ Written([op |-> "set_with_metadata", path |-> path, name |-> JoinPath(path),
               store_arg |-> store_arg, given |-> value],
             set_with_metadata(path, value, store_arg, Ctx, auto_stores,
                               set_metadata))
  /\ nwrites' = nwrites + 1
  /\ UNCHANGED <<overrides, catalog, db_ok>>

\* unset(path, store=...)
Unset(path, store_arg, auto_stores, unset_metadata) ==
  /\ Idle
  /\ nwrites < MaxWrites
  /\ StoreParam(store_arg) # AUTO => auto_stores = {}
  /\ unset_metadata \in Returned(StoreParam(store_arg), auto_stores)
  /\ setting_defs' = CatalogNow
  /\ Written([op |-> "unset", path |-> path, name |-> JoinPath(path),
               store_arg |-> store_arg],
             unset(path, store_arg, Ctx, auto_stores, unset_metadata))
  /\ nwrites' = nwrites + 1
  /\ UNCHANGED <<overrides, catalog, db_ok>>

\* reset(store=...): the only operation that never consults the catalog
Reset(store_arg, auto_stores, reset_metadata) ==
  /\ Idle
  /\ nwrites < MaxWrites
  /\ StoreParam(store_arg) # AUTO => auto_stores = {}
  /\ reset_metadata \in Returned(StoreParam(store_arg), auto_stores)
  /\ Written([op |-> "reset", store_arg |-> store_arg],
             reset(store_arg, [stores |-> stores, defs |-> <<>>, db_ok |-> db_ok],
                   auto_stores, reset_metadata))
  /\ nwrites' = nwrites + 1
  /\ UNCHANGED <<overrides, catalog, setting_defs, db_ok>>

\* the caller takes the outcome of the call and the service is idle again
Return ==
  /\ ~Idle
  /\ last' = NoResult
  /\ UNCHANGED <<overrides, stores, catalog, setting_defs, db_ok, nwrites>>

Next ==
  \/ \E name \in Names : FindSetting(name)
  \/ \E name \in Names, redacted \in BOOLEAN, source \in Sources :
       GetWithMetadata(name, redacted, source)
  \/ \E a \in ConfigArgs, source \in {AUTO, DB}, redacted \in BOOLEAN :
       ConfigWithMetadata(a[1], a[2], source, redacted)
  \/ \E a \in ConfigArgs, source \in {AUTO, DB}, redacted \in BOOLEAN :
       AsDict(a[1], a[2], source, redacted)
  \/ \E a \in ConfigArgs, source \in {AUTO, DB}, redacted \in BOOLEAN :
       AsEnv(a[1], a[2], source, redacted)
  \/ \E path \in Paths, value \in WriteValues, store_arg \in StoreArgs,
        auto_stores \in SUBSET ConcreteStores,
        set_metadata \in {ManagerMetadata(t) : t \in ConcreteStores \cup {""}} :
       SetWithMetadata(path, value, store_arg, auto_stores, set_metadata)
  \/ \E path \in Paths, store_arg \in StoreArgs,
        auto_stores \in SUBSET ConcreteStores,
        unset_metadata \in {ManagerMetadata(t) : t \in ConcreteStores \cup {""}} :
       Unset(path, store_arg, auto_stores, unset_metadata)
  \/ \E store_arg \in StoreArgs, auto_stores \in SUBSET ConcreteStores,
        reset_metadata \in {ManagerMetadata(t) : t \in ConcreteStores \cup {""}} :
       Reset(store_arg, auto_stores, reset_metadata)
  \/ Return

Spec == Init /\ [][Next]_vars

\* Two instances and their override mappings.  No instance exists at first;
\* each is constructed with or without the override arguments, and callers
\* change the mappings of the instances they hold.
InitOverrides ==
  /\ heap = [o \in Objects |-> EmptyMapping]
  /\ instances = [i \in Instances |-> NoInstance]
  /\ changed = NoChange
  /\ stores = Seed({}, {}, {})
  /\ catalog = Declared
  /\ setting_defs = NoCache
  /\ db_ok = TRUE
  /\ last = NoResult
  /\ nwrites = 0

\* SettingsService(project, env_override=..., config_override=...), each
\* argument given (a new empty mapping of the caller) or left out
Construct(i, env_given, config_given) ==
  /\ ~instances[i].built
  /\ instances' = [instances EXCEPT ![i] = Constructed(i, env_given, config_given)]
  /\ UNCHANGED <<service, heap, changed>>

\* a caller's service.env_override[key] = value
ChangeEnvOverride(i, key, value) ==
  /\ instances[i].built
  /\ changed.n < MaxChanges
  /\ heap' = [heap EXCEPT ![instances[i].env_override][key] = value]
  /\ changed' = [by |-> i, which |-> "env_override", key |-> key,
                 n |-> changed.n + 1]
  /\ UNCHANGED <<service, instances>>

\* a caller's service.config_override[key] = value
ChangeConfigOverride(i, key, value) ==
  /\ instances[i].built
  /\ changed.n < MaxChanges
  /\ heap' = [heap EXCEPT ![instances[i].config_override][key] = value]
  /\ changed' = [by |-> i, which |-> "config_override", key |-> key,
                 n |-> changed.n + 1]
  /\ UNCHANGED <<service, instances>>

NextOverrides ==
  \/ \E i \in Instances, env_given \in BOOLEAN, config_given \in BOOLEAN :
       Construct(i, env_given, config_given)
  \/ \E i \in Instances, key \in OverrideKeys, value \in OverrideValues :
       ChangeEnvOverride(i, key, value)
  \/ \E i \in Instances, key \in OverrideKeys, value \in OverrideValues :
       ChangeConfigOverride(i, key, value)

SpecOverrides == InitOverrides /\ [][NextOverrides]_vars

\* the service of the variant whose catalog has an extra setting nested
\* under the object foo
InitNestedExtra ==
  /\ heap = [o \in Objects |-> EmptyMapping]
  /\ instances = [i \in Instances |->
                    IF i = 1 THEN Constructed(1, FALSE, FALSE) ELSE NoInstance]
  /\ changed = NoChange
  /\ stores \in Seeds
  /\ catalog = DeclaredNestedExtra
  /\ setting_defs = NoCache
  /\ db_ok \in BOOLEAN
  /\ last = NoResult
  /\ nwrites = 0

SpecNestedExtra == InitNestedExtra /\ [][Next]_vars


\* ------------------------------------------------------------- properties
\* vocabulary of the properties
IsGet == last.op = "get_with_metadata" /\ last.err = ""
LastDef == last.metadata.setting
LastKey == last.metadata.name
Readable(store) == Supported(store, "get", db_ok)
\* the concrete stores that can be read and hold a value for the key
Holders(key) == {s \in ConcreteStores : Readable(s) /\ stores[s][key] # Null}
\* the store of highest precedence among them
Top(key) == CHOOSE s \in Holders(key) : \A t \in Holders(key) : ~Overrides(t, s)
\* the raw value the returned one was cast from
RawOf(r) == IF r.metadata.has_uncast THEN r.metadata.uncast_value ELSE r.value
\* the raw value a read of `source` resolves for a setting that is not
\* assembled from nested keys
Resolved(source, key, def) ==
  CASE source = AUTO ->
         IF Holders(key) # {} THEN stores[Top(key)][key] ELSE def.value
    [] source = DEFAULT -> def.value
    [] OTHER -> stores[source][key]

\* whether a stored value refers to a variable, to be interpolated on a read
IsRef(v) == v.k = "str" /\ v.s = "$"

\* C1: a read with source AUTO of a setting that two concrete stores hold
\* returns the value of the store of higher precedence, in cast form, and
\* names that store as the source: the lower store of the pair never wins,
\* and the higher one does unless a third store overrides it too.
C1_AutoHigherPrecedenceWins ==
  (IsGet /\ last.source = AUTO /\ ~last.redacted /\ LastDef # NoDef) =>
    \A a, b \in Holders(LastKey) :
      Overrides(a, b) =>
        /\ last.metadata.source # b
        /\ last.metadata.source = Top(LastKey)
        /\ (a = Top(LastKey) =>
              /\ last.metadata.source = a
              /\ ~IsRef(stores[a][LastKey]) =>
                   /\ RawOf(last) = stores[a][LastKey]
                   /\ last.value = cast_value(LastDef, stores[a][LastKey]))

\* C1 witness: the environment holds "a" and meltano.yml holds "b" for the
\* setting read, and the read returned "a" from the environment
C1_Witness ==
  /\ IsGet /\ last.source = AUTO /\ ~last.redacted
  /\ stores[ENV][LastKey] = Str("a") /\ stores[MELTANO_YML][LastKey] = Str("b")
  /\ last.value = Str("a") /\ last.metadata.source = ENV

\* C2 as claimed: when no concrete store holds any value, a read with source
\* DEFAULT or AUTO of any definition, objects included, returns exactly the
\* declared default, with source DEFAULT.
C2_DefaultWhenNothingStored ==
  (/\ IsGet /\ last.source \in {AUTO, DEFAULT} /\ LastDef # NoDef
   /\ \A s \in ConcreteStores, n \in Names : stores[s][n] = Null) =>
    /\ last.value = LastDef.value
    /\ last.metadata.source = DEFAULT

\* C3 as claimed: with redaction asked for, a redacted setting that has a
\* value is returned as the sentinel, flagged redacted.
C3_RedactedWheneverValued ==
  (/\ IsGet /\ last.redacted /\ LastDef.is_redacted
   /\ Resolved(last.source, LastKey, LastDef) # Null) =>
    /\ last.value = REDACTED_VALUE
    /\ last.metadata.redacted

\* C3 amended: a redacted setting whose cast value is non-empty is returned
\* as the sentinel with redacted = true when redaction is asked for, and an
\* empty value ("" included) is returned as it is, unflagged; without
\* redaction asked for the same state yields the true cast value and no flag.
C3_RedactedWhenNonEmpty ==
  (IsGet /\ LastDef.is_redacted) =>
    LET true == cast_value(LastDef, Resolved(last.source, LastKey, LastDef))
    IN IF last.redacted /\ Truthy(true)
       THEN /\ last.value = REDACTED_VALUE
            /\ last.metadata.redacted
            /\ last.metadata.has_uncast =>
                 last.metadata.uncast_value = Resolved(last.source, LastKey, LastDef)
       ELSE /\ last.value = true
            /\ ~last.metadata.redacted

\* C3 witness: a redacted setting with a non-empty stored value, read with
\* redaction, came back as the sentinel
C3_Witness ==
  /\ IsGet /\ last.redacted /\ LastDef.is_redacted
  /\ Truthy(Resolved(last.source, LastKey, LastDef))
  /\ last.value = REDACTED_VALUE /\ last.metadata.redacted

\* C4: set_with_metadata given the sentinel "(redacted)" changes no store,
\* calls no manager and returns (None, metadata) with redacted = true,
\* whatever the path and the target store.
C4_SentinelWriteIsNoOp ==
  [][(last'.op = "set_with_metadata" /\ last'.given = REDACTED_VALUE /\ Idle) =>
       /\ stores' = stores
       /\ last'.calls = <<>>
       /\ last'.value = Null
       /\ last'.metadata.redacted
       /\ last'.err = ""]_vars

\* C4 witness: the sentinel was written to a read-only store for a setting
\* that another store holds, and came back as a suppressed write
C4_Witness ==
  /\ last.op = "set_with_metadata" /\ last.given = REDACTED_VALUE
  /\ last.store_arg = ENV /\ last.metadata.redacted /\ last.err = ""
  /\ stores[MELTANO_YML][N_secret] = Str("b") /\ last.name = N_pw


\* what the caller gets of get_with_metadata called in the current state
ReadNow(name, redacted, source) ==
  Outcome(get_with_metadata(name, redacted, source, NoMgr, NoDef, Ctx, 0, MaxDepth))
SameRead(r, q) == r.value = q.value /\ r.metadata = q.metadata /\ r.err = q.err
\* the definition and key of the setting a write named
WrittenDef == last.metadata.setting
WrittenKey == StoreKey(last.name, WrittenDef)
CastForm(def, value) == IF def # NoDef THEN cast_value(def, value) ELSE value
\* a set_with_metadata of a real value on a named concrete store went through
SetDone ==
  /\ last.op = "set_with_metadata" /\ last.err = ""
  /\ last.store_arg \in ConcreteStores /\ last.given # REDACTED_VALUE

\* C5 as claimed: right after set_with_metadata(name, v, store=S) on a named
\* concrete store, get_with_metadata(name, source=AUTO) returns the cast
\* form of v.
C5_RoundTrip ==
  SetDone => ReadNow(last.name, FALSE, AUTO).value = CastForm(WrittenDef, last.given)

\* C5 amended: right after the write, the AUTO read returns the cast form of
\* v from S provided no readable store of higher precedence than S holds a
\* value for the setting (else that store's value comes back); and a read
\* repeated with no write in between returns the same value and metadata.
C5_RoundTripUnlessOverridden ==
  /\ SetDone =>
       LET r == ReadNow(last.name, FALSE, AUTO)
       IN IF \A t \in Holders(WrittenKey) : ~Overrides(t, last.store_arg)
          THEN /\ r.value = CastForm(WrittenDef, last.given)
               /\ r.metadata.source = last.store_arg
          ELSE /\ r.metadata.source = Top(WrittenKey)
               /\ Overrides(r.metadata.source, last.store_arg)
               /\ ~IsRef(stores[Top(WrittenKey)][WrittenKey]) =>
                    r.value =
                      CastForm(WrittenDef, stores[Top(WrittenKey)][WrittenKey])
  /\ last.op = "get_with_metadata" =>
       SameRead(ReadNow(last.name, last.redacted, last.source), last)

\* C5 witness: the text "1" was written for foo.x to the database and reads
\* back through AUTO as the integer 1 from the database
C5_Witness ==
  /\ SetDone /\ last.store_arg = DB /\ last.given = Str("1")
  /\ last.name = N_foo_x /\ last.path = <<N_foo, <<"x">>>>
  /\ ReadNow(N_foo_x, FALSE, AUTO).value = Int("1")
  /\ ReadNow(N_foo_x, FALSE, AUTO).metadata.source = DB

\* C6: an object setting foo that no store defines directly, whose nested
\* settings foo.x and foo.y are held in a store S (the store AUTO resolves
\* both from), reads as the mapping {x, y} of their values with source S,
\* not DEFAULT.
C6_ObjectFromNestedKeys ==
  (/\ IsGet /\ last.source = AUTO /\ ~last.redacted /\ LastKey = N_foo
   /\ Holders(N_foo) = {}
   /\ Holders(N_foo_x) # {} /\ Holders(N_foo_y) # {}
   /\ Top(N_foo_x) = Top(N_foo_y)) =>
    LET S == Top(N_foo_x)
        def(n) == find_setting(setting_defs.defs, n)
    IN /\ last.value =
            Obj({ <<<<"x">>, cast_value(def(N_foo_x), stores[S][N_foo_x])>>,
                  <<<<"y">>, cast_value(def(N_foo_y), stores[S][N_foo_y])>> })
       /\ last.metadata.source = S

\* C6 witness: foo.x = 1 and foo.y = 2 sit in meltano.yml and foo, asked for
\* by its alias, read as {x: 1, y: 2} from meltano.yml
C6_Witness ==
  /\ IsGet /\ last.source = AUTO /\ last.name = N_bar
  /\ stores[MELTANO_YML][N_foo_x] = Int("1")
  /\ stores[MELTANO_YML][N_foo_y] = Int("2")
  /\ last.value = Obj({<<<<"x">>, Int("1")>>, <<<<"y">>, Int("2")>>})
  /\ last.metadata.source = MELTANO_YML

\* the resolved config behind the last as_env call
EnvConfig ==
  config_with_metadata(last.prefix, last.extras, last.source, NoMgr,
                       last.redacted, Ctx, 0, MaxDepth).config
\* the variable names as_env is to emit for a setting: every prefix of the
\* service and the generic one, with the name and each alias, not negated
PlainKeys(def) ==
  {EnvKey(p, n, FALSE) : p \in SeqToSet(EnvPrefixes) \cup {GenericEnvPrefix},
                         n \in {def.name} \cup SeqToSet(def.aliases)}

\* C7: the mapping as_env returns has no entry that comes from a setting
\* resolved to null and no negated variable name, and every non-negated
\* name of a non-null setting maps to the setting's stringified value.
C7_AsEnvEntries ==
  (last.op = "as_env" /\ last.err = "") =>
    LET cfg == EnvConfig
        live == {i \in 1..Len(cfg) : cfg[i].value # Null}
    IN /\ \A e \in last.env : ~e[1].no
       /\ \A e \in last.env :
            \E i \in live : e[1] \in PlainKeys(cfg[i].metadata.setting)
       /\ \A i \in live : \A key \in PlainKeys(cfg[i].metadata.setting) :
            <<key, stringify_value(cfg[i].metadata.setting, cfg[i].value)>>
              \in last.env

\* C7 witness: the boolean _debug is true and projected under the generic
\* prefix as "true", its negated name is absent, and the null secret has
\* no entry
C7_Witness ==
  /\ last.op = "as_env" /\ last.err = "" /\ last.extras = "all"
  /\ <<EnvKey(GenericEnvPrefix, N_extra, FALSE), Str("true")>> \in last.env
  /\ \A e \in last.env : e[1] # EnvKey(GenericEnvPrefix, N_extra, TRUE)
  /\ \A e \in last.env : e[1].name # N_secret
  /\ \E i \in 1..Len(EnvConfig) :
       EnvConfig[i].key = N_secret /\ EnvConfig[i].value = Null

\* C8: find_setting returns the same definition d for d's canonical name and
\* for each alias of d, and get_with_metadata of an alias returns the value
\* and metadata of get_with_metadata of the canonical name, with metadata
\* name equal to the canonical name.
C8_AliasesResolveAlike ==
  /\ setting_defs.set =>
       \A i \in 1..Len(setting_defs.defs) :
         LET d == setting_defs.defs[i]
         IN \A n \in {d.name} \cup SeqToSet(d.aliases) :
              find_setting(setting_defs.defs, n) = d
  /\ (last.op = "find_setting" /\ last.err = "") =>
       /\ last.name \in {last.found.name} \cup SeqToSet(last.found.aliases)
       /\ find_setting(setting_defs.defs, last.found.name) = last.found
  /\ (last.op = "get_with_metadata" /\ last.name \in Names) =>
       \A i \in 1..Len(setting_defs.defs) :
         LET d == setting_defs.defs[i]
         IN last.name \in {d.name} \cup SeqToSet(d.aliases) =>
              /\ last.metadata.name = d.name
              /\ last.metadata.setting = d
              /\ SameRead(ReadNow(d.name, last.redacted, last.source), last)

\* C8 witness: the secret was read by its alias pw and came back under the
\* canonical name with the stored value
C8_Witness ==
  /\ IsGet /\ last.name = N_pw /\ last.metadata.name = N_secret
  /\ last.value = Str("a") /\ last.metadata.source = ENV

WriteOps == {"set_with_metadata", "unset", "reset"}

\* C9 as claimed: every manager a write reaches belongs to a concrete store
\* named by the caller; no write is delegated to the AUTO store.
C9_WritesNeverUseAuto ==
  last.op \in WriteOps =>
    \A i \in 1..Len(last.calls) :
      /\ last.calls[i].store \in ConcreteStores
      /\ last.calls[i].store = last.store_arg

\* the store whose manager the last operation asked for, and what it asked
Requested(r) == IF r.op \in WriteOps THEN StoreParam(r.store_arg) ELSE r.source
Asked(r) == CASE r.op = "set_with_metadata" -> "set"
              [] r.op = "unset" -> "unset"
              [] r.op = "reset" -> "reset"
              [] OTHER -> "get"

\* C10: when the manager of the requested store fails with
\* StoreNotSupportedError in get_with_metadata, set_with_metadata, unset or
\* reset, the operation ends with that error: the failed call is the only
\* manager call (no retry, no other store) and no store changes.  A set that
\* ends before it reaches the manager (the sentinel, or text that
\* cast_value rejects) is not such a call.
C10_StoreNotSupportedPropagates ==
  [][(Idle /\ last'.op \in WriteOps \cup {"get_with_metadata"}) =>
       /\ (/\ Requested(last') # AUTO
           /\ ~Supported(Requested(last'), Asked(last'), db_ok)
           /\ ~(last'.op = "set_with_metadata" /\ last'.given = REDACTED_VALUE)
           /\ last'.err # "ValueError")
          => last'.err = "StoreNotSupportedError"
       /\ last'.err = "StoreNotSupportedError" =>
            /\ stores' = stores
            /\ Len(last'.calls) = 1
            /\ last'.calls[1].store = Requested(last')
            /\ last'.value = Null]_vars

\* C10 witness: the database store is not supported, it holds a secret, and
\* a read with source db ended with StoreNotSupportedError
C10_Witness ==
  /\ last.op = "get_with_metadata" /\ last.source = DB /\ ~db_ok
  /\ last.err = "StoreNotSupportedError" /\ stores[DB][N_secret] # Null
  /\ last.name = N_secret

\* whether a value is the redaction sentinel or a mapping that holds it
HasSentinel(v) ==
  \/ v = REDACTED_VALUE
  \/ /\ v.k = "obj" \/ (v.k = "str" /\ v.s = "json")
     /\ \E p \in v.m : p[2] = REDACTED_VALUE

\* C11 as claimed: in every result of get_with_metadata, uncast_value, when
\* present, is the raw value the cast changed and neither is nor holds the
\* sentinel; it is the same whether or not redaction was asked for, since
\* redaction comes after the cast; the redacted flag goes only with a
\* non-empty cast value replaced by the sentinel.
C11_UncastValueIsRawInput ==
  IsGet =>
    LET md == last.metadata
        plain == ReadNow(last.name, FALSE, last.source)
    IN /\ md.has_uncast =>
            /\ ~HasSentinel(md.uncast_value)
            /\ LastDef # NoDef
            /\ cast_value(LastDef, md.uncast_value) # md.uncast_value
       /\ md.has_uncast = plain.metadata.has_uncast
       /\ md.uncast_value = plain.metadata.uncast_value
       /\ md.redacted =>
            /\ last.value = REDACTED_VALUE
            /\ Truthy(plain.value)

ReadOps == {"get_with_metadata", "config_with_metadata", "as_dict", "as_env"}
\* the manager calls a read made for settings flagged extra
ExtraCalls(r) ==
  {i \in 1..Len(r.calls) : find_setting(setting_defs.defs, r.calls[i].name).is_extra}

\* C12 as claimed: get_with_metadata comes to an end for every catalog and
\* store content, and while it builds expandible_env for an extra setting no
\* extra setting is resolved: the only manager call for an extra setting is
\* the last one, for the setting asked for.
C12_NoExtraInsideExpansion ==
  last.op = "get_with_metadata" =>
    /\ last.err # "RecursionError"
    /\ last.metadata.setting.is_extra =>
         ExtraCalls(last) \subseteq {Len(last.calls)}

\* the names and aliases the cached catalog knows
Known == UNION {{setting_defs.defs[i].name} \cup SeqToSet(setting_defs.defs[i].aliases) :
                  i \in 1..Len(setting_defs.defs)}

\* C13: the catalog is merged at the first call of definitions(), from the
\* declared definitions and the YAML config as it is then, and every later
\* call returns that catalog whatever was written since: find_setting on a
\* key the YAML config got after the first access signals setting-missing.
C13_CatalogCachedForLife ==
  [][/\ setting_defs.set => setting_defs' = setting_defs
     /\ (~setting_defs.set /\ setting_defs'.set) =>
          setting_defs'.defs =
            SelectSeq(catalog, LAMBDA d : d.kind # "hidden" \/ show_hidden)
            \o from_missing(catalog, stores[MELTANO_YML])
     /\ (Idle /\ last'.op = "find_setting") =>
          /\ setting_defs'.set
          /\ last'.found = find_setting(setting_defs'.defs, last'.name)
          /\ (setting_defs.set /\ last'.name \notin Known) =>
               /\ last'.err = "SettingMissingError"
               /\ last'.found = NoDef]_vars

\* C13 witness: bar.x came into meltano.yml after the catalog was merged,
\* and find_setting on it signalled setting-missing
C13_Witness ==
  /\ last.op = "find_setting" /\ last.name = N_bar_x
  /\ stores[MELTANO_YML][N_bar_x] # Null
  /\ last.err = "SettingMissingError" /\ setting_defs.set

BulkOps == {"config_with_metadata", "as_dict", "as_env"}
\* the positions of the manager calls made for one setting
CallsFor(name) == {i \in 1..Len(last.calls) : last.calls[i].name = name}

\* C14: every manager.get of one config_with_metadata pass (as_dict and
\* as_env run one), those of nested object assembly and of the
\* expandible_env of extra settings included, goes to one manager: the
\* bulk-mode manager of the source created when the call started.  No
\* manager outlives its call: the service keeps none between calls.
C14_OneBulkManagerPerPass ==
  last.op \in BulkOps =>
    \A i \in 1..Len(last.calls) :
      /\ last.calls[i].mgr = 1
      /\ last.calls[i].bulk
      /\ last.calls[i].store = last.source
      /\ last.calls[i].op = "get"

\* C14 witness: a pass over the whole catalog assembled foo from its nested
\* settings (foo.x was asked for again inside the assembly) and built the
\* expandible_env of the extra _debug (the secret was asked for again)
C14_Witness ==
  /\ last.op = "config_with_metadata" /\ last.err = ""
  /\ last.prefix = NoPrefix /\ last.extras = "all"
  /\ Cardinality(CallsFor(N_foo_x)) >= 2
  /\ Cardinality(CallsFor(N_secret)) >= 2
  /\ CallsFor(N_extra) # {}

\* C15: get_with_metadata of a name that no definition and no alias matches
\* does not fail for the missing definition (only the manager of the source
\* can fail it): it returns the value the manager produced as it is, not
\* cast and not redacted even with redaction asked for, with metadata
\* setting empty, name the requested name, and no uncast_value or redacted.
C15_UnknownNameReadsRaw ==
  (last.op = "get_with_metadata" /\ last.name \notin Known) =>
    /\ last.err # "SettingMissingError"
    /\ (last.source = AUTO \/ Readable(last.source)) => last.err = ""
    /\ last.err = "" =>
         /\ last.value = Resolved(last.source, last.name, NoDef)
         /\ last.metadata.setting = NoDef
         /\ last.metadata.name = last.name
         /\ ~last.metadata.has_uncast
         /\ ~last.metadata.redacted
         /\ Len(last.calls) = 1

\* C15 witness: bar.x, which the catalog does not know, holds the text "1"
\* and was read with redaction asked for: "1" came back as it is
C15_Witness ==
  /\ IsGet /\ last.name = N_bar_x /\ N_bar_x \notin Known /\ last.redacted
  /\ last.source = AUTO /\ last.value = Str("1")
  /\ last.metadata.setting = NoDef /\ last.metadata.name = N_bar_x

\* the prefixes object assembly goes through for the setting last read: the
\* canonical name, then the aliases in order
Prefixes == <<LastDef.name>> \o LastDef.aliases
\* whether the catalog has a setting named prefix.key
Nests(prefix, key) ==
  \E i \in 1..Len(setting_defs.defs) : setting_defs.defs[i].name = prefix \o key
\* the nested keys of the setting last read
NestedKeys ==
  {StripPrefix(setting_defs.defs[i].name, Prefixes[j]) :
     <<i, j>> \in {p \in (1..Len(setting_defs.defs)) \X (1..Len(Prefixes)) :
                    StartsWith(setting_defs.defs[p[1]].name, Prefixes[p[2]])}}
\* the setting that supplies a nested key: the one under the first prefix
\* that has the key
Supplier(key) ==
  Prefixes[CHOOSE j \in 1..Len(Prefixes) :
             /\ Nests(Prefixes[j], key)
             /\ \A h \in 1..(j - 1) : ~Nests(Prefixes[h], key)] \o key
KeptRead(key) == ReadNow(Supplier(key), last.redacted, last.source)
\* the last read assembled an object: no store defines the object directly
Assembled ==
  /\ IsGet /\ LastDef.kind = "object" /\ last.source \in {AUTO, DEFAULT}
  /\ last.source = AUTO => Holders(LastKey) = {}
  /\ NestedKeys # {}

\* C16: an assembled object maps every nested key to the value of its
\* first occurrence, the canonical name coming before the aliases in their
\* order (a later occurrence is dropped even when the first is null), and
\* its source is the highest-precedence source among the kept keys: some
\* kept key has it (or it is DEFAULT) and no kept key's source overrides it.
C16_FirstOccurrenceAndTopSource ==
  Assembled =>
    /\ last.value = Obj({<<key, KeptRead(key).value>> : key \in NestedKeys})
    /\ \A key \in NestedKeys :
         ~Overrides(KeptRead(key).metadata.source, last.metadata.source)
    /\ \/ last.metadata.source = DEFAULT
       \/ \E key \in NestedKeys :
            KeptRead(key).metadata.source = last.metadata.source

\* C16 witness: foo.x is held nowhere while bar.x is in the environment and
\* bar.z in meltano.yml: foo read as {x: null, y: null, z: 2} from meltano.yml
C16_Witness ==
  /\ Assembled /\ last.name = N_foo /\ last.source = AUTO
  /\ stores[ENV][N_bar_x] = Str("2") /\ stores[MELTANO_YML][N_bar_z] = Int("2")
  /\ last.value = Obj({<<<<"x">>, Null>>, <<<<"y">>, Null>>, <<<<"z">>, Int("2")>>})
  /\ last.metadata.source = MELTANO_YML

\* the stores differ from `before` in nothing but the entry of store t for
\* the key, which is the value
OnlyWrote(before, after, t, key, value) ==
  after = [before EXCEPT ![t] = [before[t] EXCEPT ![key] = value]]

\* C17: set_with_metadata of a value other than the sentinel hands the
\* manager, and returns, cast(v) when the setting has a definition and v as
\* given when it has none; metadata has uncast_value, equal to v, exactly
\* when there is a definition and cast(v) differs from v.  The value handed
\* over is the one found in the store afterwards (with the store argument
\* left out: in every store the write changed).
C17_WritesTheCastValue ==
  [][(Idle /\ last'.op = "set_with_metadata" /\ last'.given # REDACTED_VALUE) =>
       LET def == find_setting(setting_defs'.defs, last'.name)
           v == last'.given
           c == IF def # NoDef THEN cast_value(def, v) ELSE v
           key == IF def # NoDef THEN def.name ELSE last'.name
       IN /\ last'.metadata.setting = def
          /\ last'.metadata.has_uncast <=> (def # NoDef /\ c # v)
          /\ last'.metadata.has_uncast => last'.metadata.uncast_value = v
          /\ ~last'.metadata.redacted
          /\ last'.err = "" =>
               /\ last'.value = c
               /\ IF last'.store_arg = Omitted
                  THEN \A t \in ConcreteStores :
                         stores'[t] \in {stores[t], [stores[t] EXCEPT ![key] = c]}
                  ELSE OnlyWrote(stores, stores', last'.store_arg, key, c)]_vars

\* C17 witness: the text "1" was written for the integer foo.x to
\* meltano.yml: 1 was returned and stored, and uncast_value is "1"
C17_Witness ==
  /\ last.op = "set_with_metadata" /\ last.err = ""
  /\ last.name = N_foo_x /\ last.given = Str("1")
  /\ last.store_arg = MELTANO_YML
  /\ last.value = Int("1") /\ stores[MELTANO_YML][N_foo_x] = Int("1")
  /\ last.metadata.has_uncast /\ last.metadata.uncast_value = Str("1")

\* C18: get_with_metadata, config_with_metadata, as_dict and as_env, with
\* any source, prefix, extras and redacted arguments, leave the contents of
\* every store as they were: the only operation they ask of a manager is
\* get, whether they end with a result or with an error.
C18_ReadsLeaveStoresAlone ==
  [][(Idle /\ last'.op \in ReadOps) =>
       /\ stores' = stores
       /\ \A i \in 1..Len(last'.calls) : last'.calls[i].op = "get"]_vars

\* C18 witness: a redacted as_env pass over the database, which holds the
\* nested keys of foo and a secret, asked the manager for settings and
\* returned
C18_Witness ==
  /\ last.op = "as_env" /\ last.err = "" /\ last.redacted /\ last.source = DB
  /\ last.prefix = NoPrefix /\ last.extras = "all"
  /\ Len(last.calls) > Len(setting_defs.defs)
  /\ stores[DB][N_foo_x] = Int("1") /\ stores[DB][N_secret] = Str("b")

\* what shows through an instance: its two override mappings and its env
Seen(i) ==
  <<heap[instances[i].env_override], heap[instances[i].config_override],
    service_env(i)>>

\* C19 as claimed: of two instances constructed without env_override and
\* config_override arguments, a change made to a mapping of one never shows
\* through the other.
C19_OverridesNotShared ==
  [][\A i, j \in Instances :
       (/\ i # j /\ changed' # changed /\ changed'.by = i
        /\ instances[i].built /\ ~instances[i].env_given
        /\ ~instances[i].config_given
        /\ instances[j].built /\ ~instances[j].env_given
        /\ ~instances[j].config_given) =>
         Seen(j)' = Seen(j)]_vars

====
